---- MODULE Spec2Model ----
(***************************************************************************)
(* Habit tracker (App component of src/types.ts, constants of              *)
(* src/unnamed/part_000).  The state is the React state of App, the        *)
(* browser's localStorage and the clock; one action per user intent        *)
(* (event handler) and one for the pass of passive effects that follows a  *)
(* committed render.                                                       *)
(*                                                                         *)
(* Conventions.  A checks array is a sequence of BOOLEAN, day index i of   *)
(* the code being position i + 1 here.  Every read of a check in the code  *)
(* is by truthiness (h.checks[i] || false, filter(c => c), ? 1 : 0, !x),   *)
(* so undefined, null and array holes are represented by FALSE.  A string  *)
(* typed by the user is a sequence of one-character strings.  A stored     *)
(* item (the string kept by localStorage) is represented by what           *)
(* JSON.parse makes of it: its syntax ("ok", "bad" for text that does not  *)
(* parse, "empty" for the empty string), the fields the parsed object has, *)
(* and their values.                                                       *)
(***************************************************************************)
EXTENDS Integers, Sequences, FiniteSets, TLC

VARIABLES currentDate, habits, mentalState, initialized,
          editingHabitId, editName, editIcon, habitToDelete,
          localStorage, now, pc, changed, steps,
          leftRecord

vars == <<currentDate, habits, mentalState, initialized,
          editingHabitId, editName, editIcon, habitToDelete,
          localStorage, now, pc, changed, steps, leftRecord>>

(* ---------------------------- bounds ----------------------------------- *)

\* user intents explored from the mount of the application
MaxIntents == 3
\* rows of the grid the modelled user acts on, counted from the top
\* (the last row is always one of them)
MaxTargets == 1
\* first reading of the clock (Date.now()), far above the template ids
ClockStart == 1000

(* ---------------------------- constants -------------------------------- *)

Null == "null"

DEFAULT_HABITS_TEMPLATE ==
  << [id |-> "1",  name |-> "Wake up at 05:00",   icon |-> "alarm",   goal |-> 30],
     [id |-> "2",  name |-> "Gym",                icon |-> "muscle",  goal |-> 30],
     [id |-> "3",  name |-> "Reading / Learning", icon |-> "book",    goal |-> 30],
     [id |-> "4",  name |-> "Day Planning",       icon |-> "memo",    goal |-> 30],
     [id |-> "5",  name |-> "Budget Tracking",    icon |-> "money",   goal |-> 30],
     [id |-> "6",  name |-> "Project Work",       icon |-> "rocket",  goal |-> 30],
     [id |-> "7",  name |-> "No Alcohol",         icon |-> "wine",    goal |-> 30],
     [id |-> "8",  name |-> "Social Media Detox", icon |-> "herb",    goal |-> 30],
     [id |-> "9",  name |-> "Goal Journaling",    icon |-> "journal", goal |-> 30],
     [id |-> "10", name |-> "Cold Shower",        icon |-> "shower",  goal |-> 30] >>

(* ---------------------------- utils ------------------------------------ *)

\* new Date(year, month, 1): a month index outside 0..11 carries into the year
NewDate(y, m) ==
  [year |-> y + (m \div 12), month |-> m % 12]

getStorageKey(y, m) ==
  "habit-tracker-data-" \o ToString(y) \o "-" \o ToString(m)

IsLeapYear(y) == (y % 4 = 0 /\ y % 100 # 0) \/ y % 400 = 0

\* new Date(year, month + 1, 0).getDate(): the last day of the month
getDaysInMonth(y, m) ==
  LET d == NewDate(y, m)
  IN  CASE d.month \in {0, 2, 4, 6, 7, 9, 11} -> 31
        [] d.month \in {3, 5, 8, 10}          -> 30
        [] OTHER -> IF IsLeapYear(d.year) THEN 29 ELSE 28

AllFalse(days) == [i \in 1..days |-> FALSE]

generateEmptyMentalState(days) ==
  [i \in 1..days |-> [day |-> i, mood |-> 0, motivation |-> 0]]

year == currentDate.year
month == currentDate.month
daysInMonth == getDaysInMonth(year, month)

(* ---------------------------- localStorage and JSON -------------------- *)

getItemPresent(ls, key) == key \in DOMAIN ls

setItem(ls, key, item) ==
  [k \in (DOMAIN ls) \cup {key} |-> IF k = key THEN item ELSE ls[k]]

\* `if (stored)`: null (no item) and the empty string are falsy
Truthy(ls, key) == getItemPresent(ls, key) /\ ls[key].syntax # "empty"

\* mutant: the mental state is left out of the stored object
JsonStringify_NoMental(data) ==
  [syntax |-> "ok", fields |-> {"habits", "mentalState", "lastUpdated"},
   habits |-> data.habits, mentalState |-> <<>>,
   lastUpdated |-> data.lastUpdated]

\* JSON.stringify(data) of the save effect
JsonStringify(data) ==
  [syntax |-> "ok", fields |-> {"habits", "mentalState", "lastUpdated"},
   habits |-> data.habits, mentalState |-> data.mentalState,
   lastUpdated |-> data.lastUpdated]

\* JSON.parse(stored) raises a SyntaxError on text that is not JSON
JsonParseThrows(item) == item.syntax # "ok"

(* ---------------------------- load effect ------------------------------ *)

\* mutant: the rebuilt checks read the stored ones one day off
adjustedChecks_Shifted(checks, days) ==
  IF Len(checks) = days THEN checks
  ELSE [i \in 1..days |-> IF i + 1 <= Len(checks) THEN checks[i + 1] ELSE FALSE]

\* h.checks.length === daysInMonth ? h.checks
\*   : Array(daysInMonth).fill(false).map((_, i) => h.checks[i] || false)
adjustedChecks(checks, days) ==
  IF Len(checks) = days THEN checks
  ELSE [i \in 1..days |-> IF i <= Len(checks) THEN checks[i] ELSE FALSE]

adjustedHabits(stored, days) ==
  [k \in 1..Len(stored) |->
     [stored[k] EXCEPT !.checks = adjustedChecks(stored[k].checks, days)]]

\* mutant: the entry is taken by its position, not by its day number
FindDay_ByPosition(entries, d) == IF d <= Len(entries) THEN d ELSE 0

\* parsed.mentalState.find(m => m.day === d): the first entry with that day
FindDay(entries, d) ==
  LET hits == {k \in 1..Len(entries) : entries[k].day = d}
  IN  IF hits = {} THEN 0 ELSE CHOOSE k \in hits : \A j \in hits : k <= j

adjustedMental(stored, days) ==
  [i \in 1..days |->
     IF FindDay(stored, i) # 0 THEN stored[FindDay(stored, i)]
     ELSE [day |-> i, mood |-> 0, motivation |-> 0]]

\* prevParsed.habits.map(h => ({...h, checks: Array(daysInMonth).fill(false)}))
carriedHabits(prev, days) ==
  [k \in 1..Len(prev) |-> [prev[k] EXCEPT !.checks = AllFalse(days)]]

\* mutant: the template's goal is replaced by the day count
templateHabits_GoalIsDays(days) ==
  [k \in 1..Len(DEFAULT_HABITS_TEMPLATE) |->
     [id |-> DEFAULT_HABITS_TEMPLATE[k].id,
      name |-> DEFAULT_HABITS_TEMPLATE[k].name,
      icon |-> DEFAULT_HABITS_TEMPLATE[k].icon,
      goal |-> days,
      checks |-> AllFalse(days)]]

templateHabits(days) ==
  [k \in 1..Len(DEFAULT_HABITS_TEMPLATE) |->
     [id |-> DEFAULT_HABITS_TEMPLATE[k].id,
      name |-> DEFAULT_HABITS_TEMPLATE[k].name,
      icon |-> DEFAULT_HABITS_TEMPLATE[k].icon,
      goal |-> DEFAULT_HABITS_TEMPLATE[k].goal,
      checks |-> AllFalse(days)]]

\* mutant: the month before January is not carried into the year before
prevKey_NoRollover(y, m) == getStorageKey(y, m - 1)

\* new Date(year, month - 1) and the key of that month
prevKey(y, m) ==
  getStorageKey(NewDate(y, m - 1).year, NewDate(y, m - 1).month)

\* mutant: the month before is looked up first
LoadBranch_PrevFirst(ls, y, m) ==
  IF Truthy(ls, prevKey(y, m)) THEN "carry"
  ELSE IF Truthy(ls, getStorageKey(y, m)) THEN "stored"
  ELSE "default"

\* The branch the load effect takes for (y, m) on store ls.
LoadBranch(ls, y, m) ==
  IF Truthy(ls, getStorageKey(y, m)) THEN "stored"
  ELSE IF Truthy(ls, prevKey(y, m)) THEN "carry"
  ELSE "default"

\* The load effect raises: JSON.parse on unparseable text, or .map / .find
\* on a field the parsed object does not have.
LoadThrows(ls, y, m) ==
  CASE LoadBranch(ls, y, m) = "stored" ->
         LET item == ls[getStorageKey(y, m)]
         IN  \/ JsonParseThrows(item)
             \/ "habits" \notin item.fields
             \/ "mentalState" \notin item.fields
    [] LoadBranch(ls, y, m) = "carry" ->
         LET item == ls[prevKey(y, m)]
         IN  JsonParseThrows(item) \/ "habits" \notin item.fields
    [] OTHER -> FALSE

\* What the load effect hands to setHabits and setMentalState.
LoadHabits(ls, y, m) ==
  LET days == getDaysInMonth(y, m)
  IN  CASE LoadBranch(ls, y, m) = "stored" ->
             adjustedHabits(ls[getStorageKey(y, m)].habits, days)
        [] LoadBranch(ls, y, m) = "carry" ->
             carriedHabits(ls[prevKey(y, m)].habits, days)
        [] OTHER -> templateHabits(days)

\* mutant: carry-over takes the ratings of the month before as well
LoadMental_Carried(ls, y, m) ==
  LET days == getDaysInMonth(y, m)
  IN  CASE LoadBranch(ls, y, m) = "stored" ->
             adjustedMental(ls[getStorageKey(y, m)].mentalState, days)
        [] LoadBranch(ls, y, m) = "carry" ->
             adjustedMental(ls[prevKey(y, m)].mentalState, days)
        [] OTHER -> generateEmptyMentalState(days)

LoadMental(ls, y, m) ==
  LET days == getDaysInMonth(y, m)
  IN  IF LoadBranch(ls, y, m) = "stored"
      THEN adjustedMental(ls[getStorageKey(y, m)].mentalState, days)
      ELSE generateEmptyMentalState(days)

(* ---------------------------- save effect ------------------------------ *)

\* mutant: the record is written under a one-based month
SaveEffect_OneBasedMonth(ls, init, y, m, hs, ms, clock) ==
  IF ~init THEN ls
  ELSE setItem(ls, getStorageKey(y, m + 1),
               JsonStringify([habits |-> hs, mentalState |-> ms,
                              lastUpdated |-> clock]))

\* mutant: the record is also written under the preceding month's key
SaveEffect_AlsoPrevious(ls, init, y, m, hs, ms, clock) ==
  IF ~init THEN ls
  ELSE LET item == JsonStringify([habits |-> hs, mentalState |-> ms,
                                  lastUpdated |-> clock])
           before == NewDate(y, m - 1)
       IN  setItem(setItem(ls, getStorageKey(y, m), item),
                   getStorageKey(before.year, before.month), item)

\* The store after the save effect of a render with the given state.
SaveEffect(ls, init, y, m, hs, ms, clock) ==
  IF ~init THEN ls
  ELSE setItem(ls, getStorageKey(y, m),
               JsonStringify([habits |-> hs, mentalState |-> ms,
                              lastUpdated |-> clock]))

(* ---------------------------- handlers (pure parts) -------------------- *)

\* newChecks[dayIndex] = !newChecks[dayIndex] on a copy of the array: an
\* index past the end lengthens the array (the holes read as falsy), a
\* negative index sets a property and leaves the elements alone.
ToggleAt(checks, dayIndex) ==
  IF dayIndex < 0 THEN checks
  ELSE IF dayIndex < Len(checks)
       THEN [checks EXCEPT ![dayIndex + 1] = ~checks[dayIndex + 1]]
       ELSE [i \in 1..(dayIndex + 1) |->
               IF i <= Len(checks) THEN checks[i] ELSE i = dayIndex + 1]

toggleCheck(hs, habitId, dayIndex) ==
  [k \in 1..Len(hs) |->
     IF hs[k].id # habitId THEN hs[k]
     ELSE [hs[k] EXCEPT !.checks = ToggleAt(hs[k].checks, dayIndex)]]

Digits == <<"0", "1", "2", "3", "4", "5", "6", "7", "8", "9">>
IsDigit(c) == \E d \in 1..10 : Digits[d] = c
DigitValue(c) == (CHOOSE d \in 1..10 : Digits[d] = c) - 1

RECURSIVE SkipSpaces(_, _)
SkipSpaces(s, i) ==
  IF i <= Len(s) /\ s[i] = " " THEN SkipSpaces(s, i + 1) ELSE i

\* the value of the longest run of decimal digits of s that starts at i,
\* and the number of digits in it
RECURSIVE DigitRun(_, _, _, _)
DigitRun(s, i, acc, n) ==
  IF i <= Len(s) /\ IsDigit(s[i])
  THEN DigitRun(s, i + 1, acc * 10 + DigitValue(s[i]), n + 1)
  ELSE [value |-> acc, count |-> n]

\* parseInt(value): leading blanks, an optional sign, then decimal digits;
\* NaN when no digit follows (the inputs have no "0x" prefix)
parseInt(s) ==
  LET i == SkipSpaces(s, 1)
      signed == i <= Len(s) /\ s[i] \in {"-", "+"}
      run == DigitRun(s, IF signed THEN i + 1 ELSE i, 0, 0)
  IN  [nan |-> run.count = 0,
       value |-> IF signed /\ s[i] = "-" THEN 0 - run.value ELSE run.value]

Min(a, b) == IF a < b THEN a ELSE b
Max(a, b) == IF a > b THEN a ELSE b

\* mutant: the upper clamp is missing
numVal_NoUpperClamp(value) ==
  IF value = <<>> THEN 0
  ELSE LET p == parseInt(value)
       IN  Max(0, IF p.nan THEN 0 ELSE p.value)

\* value === '' ? 0 : Math.min(10, Math.max(0, parseInt(value) || 0))
numVal(value) ==
  IF value = <<>> THEN 0
  ELSE Min(10, Max(0, IF parseInt(value).nan THEN 0 ELSE parseInt(value).value))

\* a number that is undefined (a property the object does not have)
NoNumber == 0 - 1

SetField(entry, field, v) ==
  IF field = "mood" THEN [entry EXCEPT !.mood = v]
  ELSE [entry EXCEPT !.motivation = v]

\* newState[dayIndex] = { ...newState[dayIndex], [field]: numVal } on a copy:
\* past the end the spread of undefined gives an entry with that field only,
\* and the array is lengthened over holes
handleMentalChange(ms, dayIndex, field, value) ==
  LET hole == [day |-> NoNumber, mood |-> NoNumber, motivation |-> NoNumber]
  IN  IF dayIndex < 0 THEN ms
      ELSE IF dayIndex < Len(ms)
           THEN [ms EXCEPT ![dayIndex + 1] = SetField(ms[dayIndex + 1], field, numVal(value))]
           ELSE [i \in 1..(dayIndex + 1) |->
                   IF i <= Len(ms) THEN ms[i]
                   ELSE IF i = dayIndex + 1 THEN SetField(hole, field, numVal(value))
                   ELSE hole]

\* prev.map(h => h.id === editingHabitId ? {...h, name, icon} : h)
saveEditing(hs, id, name, icon) ==
  [k \in 1..Len(hs) |->
     IF hs[k].id = id THEN [hs[k] EXCEPT !.name = name, !.icon = icon]
     ELSE hs[k]]

\* mutant: the filter keeps the habits it should drop
RECURSIVE confirmDelete_Inverted(_, _)
confirmDelete_Inverted(hs, id) ==
  IF hs = <<>> THEN <<>>
  ELSE IF Head(hs).id = id
       THEN <<Head(hs)>> \o confirmDelete_Inverted(Tail(hs), id)
       ELSE confirmDelete_Inverted(Tail(hs), id)

\* prev.filter(h => h.id !== habitToDelete.id)
RECURSIVE confirmDelete(_, _)
confirmDelete(hs, id) ==
  IF hs = <<>> THEN <<>>
  ELSE IF Head(hs).id # id
       THEN <<Head(hs)>> \o confirmDelete(Tail(hs), id)
       ELSE confirmDelete(Tail(hs), id)

\* mutant: the new habit takes the template's goal of 30
newHabit_TemplateGoal(t, days) ==
  [id |-> ToString(t), name |-> "New Habit", icon |-> "sparkles",
   goal |-> 30, checks |-> AllFalse(days)]

\* the habit addHabit appends when the clock reads t in a month of `days`
newHabit(t, days) ==
  [id |-> ToString(t), name |-> "New Habit", icon |-> "sparkles",
   goal |-> days, checks |-> AllFalse(days)]

addHabit(hs, t, days) == Append(hs, newHabit(t, days))

\* mutant: both directions exchange with the habit below
moveHabit_AlwaysDown(hs, index, direction) ==
  IF direction = "up" /\ index = 0 THEN hs
  ELSE IF index = Len(hs) - 1 THEN hs
  ELSE [hs EXCEPT ![index + 1] = hs[index + 2], ![index + 2] = hs[index + 1]]

\* moveHabit for 0 <= index < hs.length; direction is "up" or "down"
moveHabit(hs, index, direction) ==
  IF direction = "up" /\ index = 0 THEN hs
  ELSE IF direction = "down" /\ index = Len(hs) - 1 THEN hs
  ELSE LET targetIndex == IF direction = "up" THEN index - 1 ELSE index + 1
       IN  [hs EXCEPT ![index + 1] = hs[targetIndex + 1],
                      ![targetIndex + 1] = hs[index + 1]]

\* mutant: the percentage is cut off instead of rounded
MathRound_Floor(num, den) == num \div den

\* Math.round(num / den) for num >= 0 and den > 0: the nearest integer, a
\* half going up. (The quotients that end in .5 have den divisible by 8;
\* for the habit counts reached here the double arithmetic is exact there.)
MathRound(num, den) == (2 * num + den) \div (2 * den)

\* habits.reduce((acc, h) => acc + (h.checks[i] ? 1 : 0), 0) over the first
\* k habits; an index the array does not have reads as undefined
RECURSIVE doneUpTo(_, _, _)
doneUpTo(hs, i, k) ==
  IF k = 0 THEN 0
  ELSE doneUpTo(hs, i, k - 1)
       + (IF i < Len(hs[k].checks) /\ hs[k].checks[i + 1] THEN 1 ELSE 0)

\* doneCount of day index i
doneCount(hs, i) == doneUpTo(hs, i, Len(hs))

\* dailyStats[i] for 0 <= i < days, at position i + 1
dailyStats(hs, days) ==
  [n \in 1..days |->
     LET done == doneCount(hs, n - 1)
     IN  [day |-> n,
          done |-> done,
          notDone |-> Len(hs) - done,
          percent |-> IF Len(hs) > 0 THEN MathRound(done * 100, Len(hs))
                      ELSE 0]]

\* the day indices the grid offers (weeks.map(week => week.days.map(...)))
RECURSIVE weeksFrom(_, _, _)
weeksFrom(days, currentDay, weekCount) ==
  IF ~(currentDay < days) THEN <<>>
  ELSE IF weekCount = 4
       THEN << [i \in 1..(days - currentDay) |-> currentDay + i - 1] >>
       ELSE << [i \in 1..7 |-> currentDay + i - 1] >>
            \o weeksFrom(days, currentDay + 7, weekCount + 1)

\* habit.checks.filter(Boolean).length
checkedCount(checks) == Cardinality({i \in 1..Len(checks) : checks[i]})

\* habits.length * daysInMonth
totalPossibleChecks(hs, days) == Len(hs) * days

\* habits.reduce((acc, h) => acc + h.checks.filter(c => c).length, 0)
RECURSIVE totalActualUpTo(_, _)
totalActualUpTo(hs, k) ==
  IF k = 0 THEN 0
  ELSE totalActualUpTo(hs, k - 1) + checkedCount(hs[k].checks)

totalActualChecks(hs) == totalActualUpTo(hs, Len(hs))

\* a row of the analysis sidebar; the percentage is kept as the fraction
\* num / den that the division yields
analysisRow(habit, days) ==
  LET goal == days
  IN  [goal |-> goal,
       checkedCount |-> checkedCount(habit.checks),
       percentage |-> IF goal > 0
                      THEN [num |-> checkedCount(habit.checks) * 100, den |-> goal]
                      ELSE [num |-> 0, den |-> 1]]

\* mutant: plain chunks of seven days, the fourth block is not special
weeks_SevenDayChunks(days) ==
  [w \in 1..((days + 6) \div 7) |->
     [i \in 1..(IF 7 * w <= days THEN 7 ELSE days - 7 * (w - 1)) |->
        7 * (w - 1) + i - 1]]

\* const weeks = useMemo(...): the blocks of day indices, in order
weeks(days) == weeksFrom(days, 0, 1)

GridDays(days) ==
  UNION { {weeks(days)[w][i] : i \in 1..Len(weeks(days)[w])} :
          w \in 1..Len(weeks(days)) }

(* ---------------------------- what the modelled user does -------------- *)

\* the months App may be opened in (new Date()): a December and a January
StartDates == { [year |-> 2023, month |-> 11], [year |-> 2024, month |-> 0] }

\* rows acted on: the first MaxTargets rows and the last one
TargetRows == {k \in 1..Len(habits) : k <= MaxTargets \/ k = Len(habits)}

\* days acted on: the first and the last day the grid offers
TargetDays == {d \in GridDays(daysInMonth) : d = 0 \/ d = daysInMonth - 1}

\* day rated: the last day the grid offers
MentalDays == {d \in GridDays(daysInMonth) : d = daysInMonth - 1}

EditNames == {"Yoga"}
EditIcons == {"lotus"}
RawValues == { <<>>, <<"7">>, <<"1", "5">>, <<"-", "3">>, <<"a", "b">> }

\* a row of the grid shows the edit form
IsEditing(k) == habits[k].id = editingHabitId

(* ---------------------------- actions ---------------------------------- *)

\* a handler runs only on an event of the rendered grid
Intent ==
  /\ pc = "idle"
  /\ initialized
  /\ steps > 0
  /\ steps' = steps - 1

\* the handler changed state the effects depend on: a render is committed
\* and its passive effects are pending
Rerender(deps) ==
  /\ pc' = "effects"
  /\ changed' = deps

NoRerender ==
  /\ pc' = "idle"
  /\ changed' = {}

\* leftRecord is a history variable, not state of App: the month that was
\* last left by handleMonthChange with the habits and mentalState it had
\* then, kept for as long as no handler changes habits or mentalState.
Mutation == leftRecord' = <<>>

NoMutation == UNCHANGED leftRecord

HandleMonthChange(offset) ==
  /\ Intent
  /\ currentDate' = NewDate(year, month + offset)
  /\ editingHabitId' = Null
  /\ habitToDelete' = <<>>
  /\ Rerender({"date"})
  /\ leftRecord' =
       IF leftRecord # <<>> /\ leftRecord[1].date = currentDate'
       THEN leftRecord
       ELSE << [date |-> currentDate, habits |-> habits,
                mentalState |-> mentalState] >>
  /\ UNCHANGED <<habits, mentalState, initialized, editName, editIcon,
                 localStorage, now>>

ToggleCheck(k, dayIndex) ==
  /\ Intent
  /\ Mutation
  /\ habits' = toggleCheck(habits, habits[k].id, dayIndex)
  /\ Rerender({"habits"})
  /\ UNCHANGED <<currentDate, mentalState, initialized, editingHabitId,
                 editName, editIcon, habitToDelete, localStorage, now>>

HandleMentalChange(dayIndex, field, value) ==
  /\ Intent
  /\ Mutation
  /\ mentalState' = handleMentalChange(mentalState, dayIndex, field, value)
  /\ Rerender({"mentalState"})
  /\ UNCHANGED <<currentDate, habits, initialized, editingHabitId,
                 editName, editIcon, habitToDelete, localStorage, now>>

StartEditing(k) ==
  /\ Intent
  /\ NoMutation
  /\ ~IsEditing(k)
  /\ editingHabitId' = habits[k].id
  /\ editName' = habits[k].name
  /\ editIcon' = habits[k].icon
  /\ NoRerender
  /\ UNCHANGED <<currentDate, habits, mentalState, initialized,
                 habitToDelete, localStorage, now>>

\* the inputs of the edit form (setEditName, setEditIcon)
TypeEdit(name, icon) ==
  /\ Intent
  /\ NoMutation
  /\ \E k \in 1..Len(habits) : IsEditing(k)
  /\ editName' = name
  /\ editIcon' = icon
  /\ NoRerender
  /\ UNCHANGED <<currentDate, habits, mentalState, initialized,
                 editingHabitId, habitToDelete, localStorage, now>>

SaveEditing ==
  /\ Intent
  /\ \E k \in 1..Len(habits) : IsEditing(k)
  /\ IF editingHabitId # Null
     THEN /\ habits' = saveEditing(habits, editingHabitId, editName, editIcon)
          /\ editingHabitId' = Null
          /\ Rerender({"habits"})
          /\ Mutation
     ELSE /\ UNCHANGED <<habits, editingHabitId>>
          /\ NoRerender
          /\ NoMutation
  /\ UNCHANGED <<currentDate, mentalState, initialized, editName, editIcon,
                 habitToDelete, localStorage, now>>

CancelEditing ==
  /\ Intent
  /\ NoMutation
  /\ \E k \in 1..Len(habits) : IsEditing(k)
  /\ editingHabitId' = Null
  /\ NoRerender
  /\ UNCHANGED <<currentDate, habits, mentalState, initialized, editName,
                 editIcon, habitToDelete, localStorage, now>>

RequestDelete(k) ==
  /\ Intent
  /\ NoMutation
  /\ IsEditing(k)
  /\ habitToDelete' = <<habits[k]>>
  /\ NoRerender
  /\ UNCHANGED <<currentDate, habits, mentalState, initialized,
                 editingHabitId, editName, editIcon, localStorage, now>>

\* the Cancel button of the modal
CancelDelete ==
  /\ Intent
  /\ NoMutation
  /\ habitToDelete # <<>>
  /\ habitToDelete' = <<>>
  /\ NoRerender
  /\ UNCHANGED <<currentDate, habits, mentalState, initialized,
                 editingHabitId, editName, editIcon, localStorage, now>>

\* mutant: the edit mode is left as it is
ConfirmDelete_KeepsEditMode ==
  /\ Intent
  /\ Mutation
  /\ habitToDelete # <<>>
  /\ habits' = confirmDelete(habits, habitToDelete[1].id)
  /\ habitToDelete' = <<>>
  /\ Rerender({"habits"})
  /\ UNCHANGED <<currentDate, mentalState, initialized, editingHabitId,
                 editName, editIcon, localStorage, now>>

\* the Delete button of the modal
ConfirmDelete ==
  /\ Intent
  /\ Mutation
  /\ habitToDelete # <<>>
  /\ habits' = confirmDelete(habits, habitToDelete[1].id)
  /\ editingHabitId' =
       IF editingHabitId = habitToDelete[1].id THEN Null ELSE editingHabitId
  /\ habitToDelete' = <<>>
  /\ Rerender({"habits"})
  /\ UNCHANGED <<currentDate, mentalState, initialized, editName, editIcon,
                 localStorage, now>>

\* the clock may have advanced since it was last read
AddHabit(t) ==
  /\ Intent
  /\ Mutation
  /\ now' = t
  /\ habits' = addHabit(habits, t, daysInMonth)
  /\ editingHabitId' = ToString(t)
  /\ editName' = "New Habit"
  /\ editIcon' = "sparkles"
  /\ Rerender({"habits"})
  /\ UNCHANGED <<currentDate, mentalState, initialized, habitToDelete,
                 localStorage>>

\* the arrows of a row in edit mode; a disabled arrow raises no event
MoveHabit(index, direction) ==
  /\ Intent
  /\ Mutation
  /\ IsEditing(index + 1)
  /\ ~(direction = "up" /\ index = 0)
  /\ ~(direction = "down" /\ index = Len(habits) - 1)
  /\ habits' = moveHabit(habits, index, direction)
  /\ Rerender({"habits"})
  /\ UNCHANGED <<currentDate, mentalState, initialized, editingHabitId,
                 editName, editIcon, habitToDelete, localStorage, now>>

\* The passive effects of the committed render, in the order of the source:
\* the load effect when year, month or daysInMonth changed, then the save
\* effect when one of its dependencies changed.  Both see the state of that
\* render; the updates the load effect queues are applied together in the
\* next render.  An exception of the load effect unmounts the application;
\* whether the save effect of the same pass still runs depends on the React
\* release.
FlushEffects ==
  /\ pc = "effects"
  /\ LET runLoad == "date" \in changed
         throws == runLoad /\ LoadThrows(localStorage, year, month)
     IN  /\ \E saveRuns \in (IF throws THEN BOOLEAN ELSE {changed # {}}) :
               localStorage' =
                 IF saveRuns
                 THEN SaveEffect(localStorage, initialized, year, month,
                                 habits, mentalState, now)
                 ELSE localStorage
         /\ IF throws
            THEN /\ pc' = "crashed"
                 /\ changed' = {}
                 /\ UNCHANGED <<habits, mentalState, initialized>>
            ELSE IF runLoad
            THEN /\ habits' = LoadHabits(localStorage, year, month)
                 /\ mentalState' = LoadMental(localStorage, year, month)
                 /\ initialized' = TRUE
                 /\ pc' = "effects"
                 /\ changed' = {"habits", "mentalState"}
                               \cup (IF initialized THEN {} ELSE {"initialized"})
            ELSE /\ pc' = "idle"
                 /\ changed' = {}
                 /\ UNCHANGED <<habits, mentalState, initialized>>
  /\ UNCHANGED <<currentDate, editingHabitId, editName, editIcon,
                 habitToDelete, now, steps, leftRecord>>

Next ==
  \/ \E offset \in {0 - 1, 1} : HandleMonthChange(offset)
  \/ \E k \in TargetRows, d \in TargetDays : ToggleCheck(k, d)
  \/ \E d \in MentalDays, f \in {"mood", "motivation"}, v \in RawValues :
       HandleMentalChange(d, f, v)
  \/ \E k \in TargetRows : StartEditing(k)
  \/ \E n \in EditNames, i \in EditIcons : TypeEdit(n, i)
  \/ SaveEditing
  \/ CancelEditing
  \/ \E k \in TargetRows : RequestDelete(k)
  \/ CancelDelete
  \/ ConfirmDelete
  \/ \E t \in {now, now + 1} : AddHabit(t)
  \/ \E k \in TargetRows, dir \in {"up", "down"} : MoveHabit(k - 1, dir)
  \/ FlushEffects

\* the first render of App: nothing loaded, the effects of the mount pending
InitApp ==
  /\ habits = <<>>
  /\ mentalState = <<>>
  /\ initialized = FALSE
  /\ editingHabitId = Null
  /\ editName = ""
  /\ editIcon = ""
  /\ habitToDelete = <<>>
  /\ now = ClockStart
  /\ pc = "effects"
  /\ changed = {"date", "habits", "mentalState", "initialized"}
  /\ leftRecord = <<>>

\* a fresh installation: nothing in localStorage
Init ==
  /\ InitApp
  /\ currentDate \in StartDates
  /\ localStorage = [k \in {} |-> 0]
  /\ steps = MaxIntents

Spec == Init /\ [][Next]_vars

(* ---------------------------- a store with history --------------------- *)

\* localStorage outlives the page and can be edited by hand; the items it
\* may hold when App mounts are drawn from these.
SeedChecks(kind, len) ==
  [i \in 1..len |->
     CASE kind = "odd"  -> i % 2 = 1
       [] kind = "all"  -> TRUE
       [] OTHER         -> i = len]

SeedHabits(len) ==
  << [id |-> "2", name |-> "Gym", icon |-> "muscle", goal |-> 30,
      checks |-> SeedChecks("odd", len)],
     [id |-> "1700", name |-> "Piano", icon |-> "keys", goal |-> 12,
      checks |-> SeedChecks("all", len)],
     [id |-> "7", name |-> "No Sugar", icon |-> "candy", goal |-> 30,
      checks |-> SeedChecks("last", len)] >>

\* checks too short, too long and of the right length
MismatchedHabits(days) ==
  << [id |-> "2", name |-> "Gym", icon |-> "muscle", goal |-> 30,
      checks |-> SeedChecks("odd", 28)],
     [id |-> "1700", name |-> "Piano", icon |-> "keys", goal |-> 12,
      checks |-> SeedChecks("all", 33)],
     [id |-> "7", name |-> "No Sugar", icon |-> "candy", goal |-> 30,
      checks |-> SeedChecks("last", days)] >>

\* one habit, done on every day of the month
FullHabits(days) ==
  << [id |-> "5", name |-> "Read", icon |-> "book", goal |-> days,
      checks |-> SeedChecks("all", days)] >>

SeedMental(len) ==
  [i \in 1..len |-> [day |-> i, mood |-> i % 11, motivation |-> (3 * i) % 11]]

\* entries out of place, one day twice, a day no month has, most days missing
SparseMental ==
  << [day |-> 5, mood |-> 3, motivation |-> 4],
     [day |-> 40, mood |-> 6, motivation |-> 6],
     [day |-> 2, mood |-> 9, motivation |-> 1],
     [day |-> 5, mood |-> 8, motivation |-> 8],
     [day |-> 1, mood |-> 2, motivation |-> 10] >>

AllFields == {"habits", "mentalState", "lastUpdated"}

SeedItem(kind, days) ==
  CASE kind = "good" ->
         [syntax |-> "ok", fields |-> AllFields, habits |-> SeedHabits(days),
          mentalState |-> SeedMental(days), lastUpdated |-> 1]
    [] kind = "mismatch" ->
         [syntax |-> "ok", fields |-> AllFields,
          habits |-> MismatchedHabits(days),
          mentalState |-> SparseMental, lastUpdated |-> 1]
    [] kind = "full" ->
         [syntax |-> "ok", fields |-> AllFields, habits |-> FullHabits(days),
          mentalState |-> SeedMental(days), lastUpdated |-> 1]
    [] kind = "nohabits" ->
         [syntax |-> "ok", fields |-> AllFields, habits |-> <<>>,
          mentalState |-> SeedMental(days), lastUpdated |-> 1]
    [] kind = "nomental" ->
         [syntax |-> "ok", fields |-> {"habits"}, habits |-> SeedHabits(days),
          mentalState |-> <<>>, lastUpdated |-> 0]
    [] kind = "nofields" ->
         [syntax |-> "ok", fields |-> {}, habits |-> <<>>,
          mentalState |-> <<>>, lastUpdated |-> 0]
    [] kind = "bad" ->
         [syntax |-> "bad", fields |-> {}, habits |-> <<>>,
          mentalState |-> <<>>, lastUpdated |-> 0]
    [] OTHER ->
         [syntax |-> "empty", fields |-> {}, habits |-> <<>>,
          mentalState |-> <<>>, lastUpdated |-> 0]

\* which months hold what: pairs <<offset from the first month, kind>>
SeedScenarios ==
  { {<<0, k>>} : k \in {"mismatch", "full", "nomental", "nofields", "bad"} }
  \cup { {<<0 - 1, k>>} : k \in {"good", "nohabits", "nofields", "bad",
                                 "empty"} }
  \cup { {<<0, "empty">>, <<0 - 1, "good">>} }

SeedStore(date, scenario) ==
  LET at(off) == NewDate(date.year, date.month + off)
      key(off) == getStorageKey(at(off).year, at(off).month)
      kindAt(off) == CHOOSE k \in {e[2] : e \in scenario} : <<off, k>> \in scenario
  IN  [k \in {key(e[1]) : e \in scenario} |->
         LET off == CHOOSE o \in {e[1] : e \in scenario} : key(o) = k
         IN  SeedItem(kindAt(off), getDaysInMonth(at(off).year, at(off).month))]

\* App is opened in March 2024, between a 29-day and a 30-day month
InitStored ==
  /\ InitApp
  /\ currentDate = [year |-> 2024, month |-> 2]
  /\ \E scenario \in SeedScenarios :
       localStorage = SeedStore(currentDate, scenario)
  /\ steps = MaxIntents

SpecStored == InitStored /\ [][Next]_vars

(* ---------------------------- properties ------------------------------- *)

CurKey == getStorageKey(year, month)

\* the month before (y, m), written out: December of y - 1 before January
MonthBefore(y, m) ==
  IF m = 0 THEN [year |-> y - 1, month |-> 11] ELSE [year |-> y, month |-> m - 1]

BeforeKey ==
  getStorageKey(MonthBefore(year, month).year, MonthBefore(year, month).month)

\* a record: an item that parses and has both sequences
IsRecord(ls, key) ==
  /\ key \in DOMAIN ls
  /\ ls[key].syntax = "ok"
  /\ {"habits", "mentalState"} \subseteq ls[key].fields

\* a step of the pass of effects in which the load effect runs
LoadPass == pc = "effects" /\ "date" \in changed

\* the render that follows a completed load
JustLoaded ==
  pc = "effects" /\ {"habits", "mentalState"} \subseteq changed /\ "date" \notin changed

SameDefinition(h, g) ==
  h.id = g.id /\ h.name = g.name /\ h.icon = g.icon /\ h.goal = g.goal

Unchecked(h, days) ==
  Len(h.checks) = days /\ \A i \in 1..days : h.checks[i] = FALSE

\* C1: whenever the record is displayed (initialized), every habit has one
\* check per day of the displayed month.
C1_ChecksLengthIsDaysInMonth ==
  initialized => \A k \in 1..Len(habits) : Len(habits[k].checks) = daysInMonth

\* C2: once an intent has been processed, the item stored under the
\* displayed month's key holds the in-memory habits and mental state.
C2_StoredEqualsMemoryWhenIdle ==
  pc = "idle" =>
    /\ IsRecord(localStorage, CurKey)
    /\ localStorage[CurKey].habits = habits
    /\ localStorage[CurKey].mentalState = mentalState

\* a month reached by navigation is stored although nothing was changed in it
C2_Witness ==
  /\ pc = "idle"
  /\ currentDate \notin StartDates
  /\ IsRecord(localStorage, CurKey)
  /\ localStorage[CurKey].habits = habits
  /\ \A k \in 1..Len(habits) : Unchecked(habits[k], daysInMonth)

\* the store with every item that is not a record removed
WithoutMalformed(ls) ==
  [k \in {j \in DOMAIN ls : IsRecord(ls, j)} |-> ls[k]]

\* C3: a stored item that does not parse or lacks habits / mentalState is
\* treated as absent by the load: no exception, initialization completes,
\* and the result is what carry-over / default resolution gives without it.
C3_MalformedTreatedAsAbsent ==
  [][ (/\ LoadPass
       /\ \/ (CurKey \in DOMAIN localStorage /\ ~IsRecord(localStorage, CurKey))
          \/ (/\ CurKey \notin DOMAIN localStorage
              /\ BeforeKey \in DOMAIN localStorage
              /\ ~IsRecord(localStorage, BeforeKey)))
      => /\ pc' # "crashed"
         /\ initialized'
         /\ habits' = LoadHabits(WithoutMalformed(localStorage), year, month)
         /\ mentalState' = LoadMental(WithoutMalformed(localStorage), year, month)
    ]_vars

\* C4: loading a record keeps the number, order, id, name, icon and goal of
\* the stored habits; each loaded checks sequence has daysInMonth entries,
\* entry i being the stored one where there is one and false elsewhere.
C4_ReconcileHabits ==
  [][ (LoadPass /\ IsRecord(localStorage, CurKey))
      => LET stored == localStorage[CurKey].habits
         IN  /\ Len(habits') = Len(stored)
             /\ \A k \in 1..Len(stored) :
                  /\ SameDefinition(habits'[k], stored[k])
                  /\ Len(habits'[k].checks) = daysInMonth
                  /\ \A i \in 1..daysInMonth :
                       habits'[k].checks[i] =
                         IF i <= Len(stored[k].checks)
                         THEN stored[k].checks[i] ELSE FALSE
    ]_vars

\* a 28-entry and a 33-entry checks sequence were loaded into a 31-day month
C4_Witness ==
  /\ JustLoaded
  /\ "initialized" \in changed
  /\ IsRecord(localStorage, CurKey)
  /\ daysInMonth = 31
  /\ \E k \in 1..Len(habits) :
       /\ Len(localStorage[CurKey].habits[k].checks) = 28
       /\ Len(habits[k].checks) = 31
       /\ habits[k].checks[27] /\ ~habits[k].checks[29]
  /\ \E k \in 1..Len(habits) :
       /\ Len(localStorage[CurKey].habits[k].checks) = 33
       /\ Len(habits[k].checks) = 31

\* C5: loading a record gives daysInMonth mental-state entries; entry i has
\* day number i and is the (first) stored entry with that day number, at
\* whatever position it is stored, or mood = motivation = 0 if there is none.
C5_ReconcileMental ==
  [][ (LoadPass /\ IsRecord(localStorage, CurKey))
      => LET stored == localStorage[CurKey].mentalState
         IN  /\ Len(mentalState') = daysInMonth
             /\ \A i \in 1..daysInMonth :
                  /\ mentalState'[i].day = i
                  /\ IF \E j \in 1..Len(stored) : stored[j].day = i
                     THEN \E j \in 1..Len(stored) :
                            /\ stored[j].day = i
                            /\ \A e \in 1..(j - 1) : stored[e].day # i
                            /\ mentalState'[i] = stored[j]
                     ELSE /\ mentalState'[i].mood = 0
                          /\ mentalState'[i].motivation = 0
    ]_vars

\* entries stored out of place were put at their day; missing days are zero
C5_Witness ==
  /\ JustLoaded
  /\ "initialized" \in changed
  /\ IsRecord(localStorage, CurKey)
  /\ Len(localStorage[CurKey].mentalState) >= 3
  /\ localStorage[CurKey].mentalState[1].day = 5
  /\ mentalState[5] = localStorage[CurKey].mentalState[1]
  /\ mentalState[2] = localStorage[CurKey].mentalState[3]
  /\ mentalState[3] = [day |-> 3, mood |-> 0, motivation |-> 0]
  /\ Len(mentalState) = 31

\* C6: a record whose checks and mental state have daysInMonth entries,
\* saved under the displayed month and loaded again, comes back unchanged.
C6_SaveThenLoad ==
  ( /\ \A k \in 1..Len(habits) : Len(habits[k].checks) = daysInMonth
    /\ Len(mentalState) = daysInMonth )
  => LET saved == SaveEffect(localStorage, TRUE, year, month,
                             habits, mentalState, now)
     IN  /\ ~LoadThrows(saved, year, month)
         /\ LoadHabits(saved, year, month) = habits
         /\ LoadMental(saved, year, month) = mentalState

\* a record with a checked day, saved by the program, was loaded again on
\* coming back to its month
C6_Witness ==
  /\ JustLoaded
  /\ "initialized" \notin changed
  /\ \E k \in 1..Len(habits) : \E i \in 1..Len(habits[k].checks) :
       habits[k].checks[i]
  /\ \A k \in 1..Len(habits) : Len(habits[k].checks) = daysInMonth
  /\ Len(mentalState) = daysInMonth

\* C7: when the requested month has no item and the month before has a
\* record, the load gives that record's habits, in order, with the same id,
\* name, icon and goal, all unchecked over daysInMonth days.
C7_CarryOver ==
  [][ (/\ LoadPass
       /\ CurKey \notin DOMAIN localStorage
       /\ IsRecord(localStorage, BeforeKey))
      => LET prev == localStorage[BeforeKey].habits
         IN  /\ Len(habits') = Len(prev)
             /\ \A k \in 1..Len(prev) :
                  /\ SameDefinition(habits'[k], prev[k])
                  /\ Unchecked(habits'[k], daysInMonth)
    ]_vars

\* January 2024 was resolved from the record of December 2023, which has an
\* added habit and a checked day
C7_Witness ==
  /\ JustLoaded
  /\ year = 2024 /\ month = 0
  /\ IsRecord(localStorage, BeforeKey)
  /\ Len(habits) = 11
  /\ Len(localStorage[BeforeKey].habits) = 11
  /\ \E k \in 1..11 : \E i \in 1..31 : localStorage[BeforeKey].habits[k].checks[i]
  /\ \A k \in 1..11 :
       /\ SameDefinition(habits[k], localStorage[BeforeKey].habits[k])
       /\ Unchecked(habits[k], 31)

\* C8: when neither the requested month nor the month before has an item,
\* the load gives the ten template habits in template order, each with goal
\* 30 and daysInMonth unchecked days.
C8_FirstUseTemplate ==
  [][ (/\ LoadPass
       /\ CurKey \notin DOMAIN localStorage
       /\ BeforeKey \notin DOMAIN localStorage)
      => /\ Len(habits') = 10
         /\ \A k \in 1..10 :
              /\ habits'[k].id = DEFAULT_HABITS_TEMPLATE[k].id
              /\ habits'[k].name = DEFAULT_HABITS_TEMPLATE[k].name
              /\ habits'[k].icon = DEFAULT_HABITS_TEMPLATE[k].icon
              /\ habits'[k].goal = 30
              /\ Unchecked(habits'[k], daysInMonth)
    ]_vars

\* the first load of a fresh installation
C8_Witness ==
  /\ JustLoaded
  /\ "initialized" \in changed
  /\ DOMAIN localStorage = {}
  /\ Len(habits) = 10
  /\ habits[1].name = "Wake up at 05:00" /\ habits[10].name = "Cold Shower"
  /\ \A k \in 1..10 : habits[k].goal = 30 /\ Unchecked(habits[k], daysInMonth)

\* C9: a month resolved by carry-over or from the template starts with
\* daysInMonth mental-state entries, days 1..daysInMonth, all zero.
C9_FreshMentalState ==
  [][ (LoadPass /\ CurKey \notin DOMAIN localStorage /\ pc' # "crashed")
      => /\ Len(mentalState') = daysInMonth
         /\ \A i \in 1..daysInMonth :
              mentalState'[i] = [day |-> i, mood |-> 0, motivation |-> 0]
    ]_vars

\* a month was carried over from one with a rating, and has none
C9_Witness ==
  /\ JustLoaded
  /\ "initialized" \notin changed
  /\ IsRecord(localStorage, BeforeKey)
  /\ \E i \in 1..Len(localStorage[BeforeKey].mentalState) :
       localStorage[BeforeKey].mentalState[i].mood > 0
  /\ \A k \in 1..Len(habits) :
       SameDefinition(habits[k], localStorage[BeforeKey].habits[k])
  /\ Len(mentalState) = daysInMonth
  /\ \A i \in 1..daysInMonth : mentalState[i].mood = 0 /\ mentalState[i].motivation = 0

\* C10: toggleCheck on a habit of the record and a day of the month flips
\* that one check, leaves everything else as it was, and undoes itself when
\* applied twice.
C10_ToggleFlipsExactlyOne ==
  \A k \in 1..Len(habits) : \A d \in 0..(Len(habits[k].checks) - 1) :
    LET once == toggleCheck(habits, habits[k].id, d)
    IN  /\ Len(once) = Len(habits)
        /\ once[k].checks = [habits[k].checks EXCEPT ![d + 1] = ~habits[k].checks[d + 1]]
        /\ SameDefinition(once[k], habits[k])
        /\ \A j \in 1..Len(habits) : j # k => once[j] = habits[j]
        /\ toggleCheck(once, habits[k].id, d) = habits

\* the ids of the habits of a record
Ids(hs) == {hs[k].id : k \in 1..Len(hs)}

\* day indices outside [0, days)
OutOfRange(days) == {0 - 1, days, days + 1}

\* C11: a mutation addressed at a day index outside [0, daysInMonth) is a
\* no-op: toggleCheck leaves every checks sequence as it was, and
\* handleMentalChange leaves the mental state as it was.
C11_OutOfRangeIsNoOp ==
  pc = "idle" =>
    \A d \in OutOfRange(daysInMonth) :
      /\ \A k \in 1..Len(habits) : toggleCheck(habits, habits[k].id, d) = habits
      /\ \A f \in {"mood", "motivation"}, v \in RawValues :
           handleMentalChange(mentalState, d, f, v) = mentalState

\* ids no habit of the record has: template ids, clock readings, null
UnknownIds ==
  ({DEFAULT_HABITS_TEMPLATE[k].id : k \in 1..Len(DEFAULT_HABITS_TEMPLATE)}
     \cup {"0", "11", ToString(now), ToString(now + 1), Null})
  \ Ids(habits)

\* C12: toggleCheck, saveEditing and confirmDelete addressed at an id that
\* no habit of the record has leave the habit list as it is.
C12_UnknownIdIsNoOp ==
  \A id \in UnknownIds :
    /\ \A d \in {0, daysInMonth - 1} : toggleCheck(habits, id, d) = habits
    /\ \A n \in EditNames, i \in EditIcons : saveEditing(habits, id, n, i) = habits
    /\ confirmDelete(habits, id) = habits

\* the first template habit was deleted; its id is now unknown
C12_Witness ==
  /\ pc = "idle"
  /\ Len(habits) = 9
  /\ "1" \in UnknownIds
  /\ habitToDelete = <<>>
  /\ confirmDelete(habits, "1") = habits
  /\ toggleCheck(habits, "1", 0) = habits

\* C13: saving an edit changes the name and icon of the edited habit and
\* nothing else: its id, goal, checks and position and every other habit
\* stay as they were.
C13_RenameChangesOneHabit ==
  \A k \in 1..Len(habits) : \A n \in EditNames, i \in EditIcons :
    LET saved == saveEditing(habits, habits[k].id, n, i)
    IN  /\ Len(saved) = Len(habits)
        /\ saved[k] = [habits[k] EXCEPT !.name = n, !.icon = i]
        /\ \A j \in 1..Len(habits) : j # k => saved[j] = habits[j]

\* C14: addHabit appends exactly one habit at the end of the list, with goal
\* equal to the displayed month's day count and an all-false checks sequence
\* of that length, and leaves the habits already there and their order as
\* they were.
C14_AddAppendsOne ==
  [][ (pc = "idle" /\ Len(habits') > Len(habits)) =>
        /\ Len(habits') = Len(habits) + 1
        /\ SubSeq(habits', 1, Len(habits)) = habits
        /\ habits'[Len(habits')].goal = daysInMonth
        /\ Unchecked(habits'[Len(habits')], daysInMonth) ]_vars

\* a habit was added in a month that does not have the template's 30 days
C14_Witness ==
  /\ pc = "effects"
  /\ changed = {"habits"}
  /\ daysInMonth # 30
  /\ Len(habits) = Len(DEFAULT_HABITS_TEMPLATE) + 1
  /\ habits[Len(habits)].name = "New Habit"
  /\ habits[Len(habits)].goal = daysInMonth
  /\ Len(habits[Len(habits)].checks) = daysInMonth
  /\ \A k \in 1..Len(DEFAULT_HABITS_TEMPLATE) :
       SameDefinition(habits[k], DEFAULT_HABITS_TEMPLATE[k])

\* C15: the habits of the record have pairwise distinct ids in every
\* reachable state, so the id addHabit produces differs from every id of
\* the record.
C15_IdsPairwiseDistinct ==
  \A a, b \in 1..Len(habits) : a # b => habits[a].id # habits[b].id

\* hs without its k-th habit
RemoveAt(hs, k) == SubSeq(hs, 1, k - 1) \o SubSeq(hs, k + 1, Len(hs))

\* C16: a confirmed delete removes exactly the requested habit and keeps
\* the other habits in their order.
C16_DeleteRemovesRequested ==
  \A k \in 1..Len(habits) :
    confirmDelete(habits, habits[k].id) = RemoveAt(habits, k)

\* C17: no step changes, adds or removes the stored item of a month other
\* than the displayed one: neither a mutation of the displayed record nor
\* the carry-over into a new month touches another month's record.
C17_OtherMonthsUntouched ==
  [][ \A key \in DOMAIN localStorage \cup DOMAIN localStorage' :
        key # getStorageKey(currentDate'.year, currentDate'.month) =>
          /\ key \in DOMAIN localStorage
          /\ key \in DOMAIN localStorage'
          /\ localStorage'[key] = localStorage[key] ]_vars

\* a habit carried over from February was deleted in March and saved;
\* February's stored record still has it
C17_Witness ==
  /\ pc = "idle"
  /\ IsRecord(localStorage, BeforeKey)
  /\ IsRecord(localStorage, CurKey)
  /\ localStorage[BeforeKey] = SeedItem("good", 29)
  /\ Len(localStorage[BeforeKey].habits) = 3
  /\ Len(habits) = 2
  /\ localStorage[CurKey].habits = habits
  /\ Ids(habits) # Ids(localStorage[BeforeKey].habits)
  /\ Ids(habits) \subseteq Ids(localStorage[BeforeKey].habits)

\* C18: moveHabit(0, "up") and moveHabit(last, "down") leave the order as
\* it is; any other move exchanges the habit at index with its neighbour in
\* that direction and leaves every other position and every habit's fields
\* as they were.
C18_MoveSwapsNeighbours ==
  \A index \in 0..(Len(habits) - 1), direction \in {"up", "down"} :
    LET moved == moveHabit(habits, index, direction)
        target == IF direction = "up" THEN index - 1 ELSE index + 1
    IN  IF target < 0 \/ target > Len(habits) - 1
        THEN moved = habits
        ELSE /\ Len(moved) = Len(habits)
             /\ moved[index + 1] = habits[target + 1]
             /\ moved[target + 1] = habits[index + 1]
             /\ \A j \in 1..Len(habits) :
                  j \notin {index + 1, target + 1} => moved[j] = habits[j]

\* the first two template habits have changed places
C18_Witness ==
  /\ Len(habits) = Len(DEFAULT_HABITS_TEMPLATE)
  /\ SameDefinition(habits[1], DEFAULT_HABITS_TEMPLATE[2])
  /\ SameDefinition(habits[2], DEFAULT_HABITS_TEMPLATE[1])
  /\ \A j \in 3..Len(habits) : SameDefinition(habits[j], DEFAULT_HABITS_TEMPLATE[j])

\* what the rating field should hold after the given text is typed
ExpectedRating(value) ==
  CASE value = <<>> -> 0
    [] value = <<"7">> -> 7
    [] value = <<"1", "5">> -> 10
    [] value = <<"-", "3">> -> 0
    [] value = <<"a", "b">> -> 0

\* C19: handleMentalChange on the first or the last day of the record stores
\* the typed number
\* clamped to 0..10 (0 for empty or unparseable text) in the named field of
\* that day's entry and changes nothing else; every stored mood and
\* motivation is an integer in 0..10.
C19_RatingClamped ==
  /\ \A i \in 1..Len(mentalState) :
       mentalState[i].mood \in 0..10 /\ mentalState[i].motivation \in 0..10
  /\ \A d \in {0, Len(mentalState) - 1} \cap 0..(Len(mentalState) - 1),
        v \in RawValues :
       LET mood == handleMentalChange(mentalState, d, "mood", v)
           motivation == handleMentalChange(mentalState, d, "motivation", v)
       IN  /\ mood = [mentalState EXCEPT ![d + 1].mood = ExpectedRating(v)]
           /\ motivation =
                [mentalState EXCEPT ![d + 1].motivation = ExpectedRating(v)]

\* "15" was typed as the last day's mood and was stored as 10
C19_Witness ==
  /\ pc = "idle"
  /\ Len(mentalState) = daysInMonth
  /\ mentalState[daysInMonth].mood = 10
  /\ mentalState[daysInMonth].motivation = 0
  /\ IsRecord(localStorage, CurKey)
  /\ localStorage[CurKey].mentalState = mentalState

\* the habits of hs checked on day index i
CheckedOn(hs, i) ==
  {k \in 1..Len(hs) : i < Len(hs[k].checks) /\ hs[k].checks[i + 1] = TRUE}

\* C20: for every day index of the displayed month, done is the number of
\* habits checked on that day, done + notDone is the number of habits, and
\* percent is done / habitCount * 100 rounded to the nearest integer (a half
\* going up), between 0 and 100, and 0 when there is no habit.
C20_DailyStats ==
  LET stats == dailyStats(habits, daysInMonth)
      habitCount == Len(habits)
  IN  \A i \in 0..(daysInMonth - 1) :
    LET stat == stats[i + 1]
        count == Cardinality(CheckedOn(habits, i))
    IN  /\ stat.day = i + 1
        /\ stat.done = count
        /\ stat.done + stat.notDone = habitCount
        /\ stat.percent \in 0..100
        /\ habitCount = 0 => stat.percent = 0
        /\ habitCount > 0 =>
             /\ (2 * stat.percent - 1) * habitCount <= 200 * count
             /\ 200 * count < (2 * stat.percent + 1) * habitCount

\* two of three habits are checked on the first day: 67 percent
C20_Witness ==
  /\ pc = "idle"
  /\ Len(habits) = 3
  /\ Cardinality(CheckedOn(habits, 0)) = 2
  /\ dailyStats(habits, daysInMonth)[1].percent = 67
  /\ dailyStats(habits, daysInMonth)[2].percent = 33
  /\ dailyStats(habits, daysInMonth)[1].notDone = 1

\* the blocks of a grid one after the other
RECURSIVE Flatten(_)
Flatten(blocks) ==
  IF blocks = <<>> THEN <<>> ELSE Head(blocks) \o Flatten(Tail(blocks))

\* C21: for the displayed month and for every month length 28..31 the grid
\* has exactly four week blocks, the first three of 7 day indices and the
\* fourth of days - 21, and the blocks one after the other are the day
\* indices 0..days-1 in ascending order, each once.
C21_WeekBuckets ==
  \A days \in {daysInMonth} \cup 28..31 :
    /\ Len(weeks(days)) = 4
    /\ \A w \in 1..3 : Len(weeks(days)[w]) = 7
    /\ Len(weeks(days)[4]) = days - 21
    /\ Flatten(weeks(days)) = [n \in 1..days |-> n - 1]

\* February 2024 is displayed, its fourth block has 8 days, and the last
\* day the grid offers has been checked
C21_Witness ==
  /\ daysInMonth = 29
  /\ Len(weeks(daysInMonth)[4]) = 8
  /\ weeks(daysInMonth)[4][8] = 28
  /\ Len(weeks(28)[4]) = 7
  /\ Len(weeks(31)[4]) = 10
  /\ \E k \in 1..Len(habits) :
       Len(habits[k].checks) = 29 /\ habits[k].checks[29] = TRUE

\* C22: in the pass of effects that follows a month change, whatever is
\* written under the new month's key is the record loaded or resolved for
\* that month, never the habits or ratings still in memory from the month
\* that was left.
C22_NoBleedWrite ==
  [][ (LoadPass /\ ~LoadThrows(localStorage, year, month)
         /\ localStorage' # localStorage) =>
        /\ localStorage'[CurKey].habits = LoadHabits(localStorage, year, month)
        /\ localStorage'[CurKey].mentalState
             = LoadMental(localStorage, year, month) ]_vars

\* C23: when the store holds a record of any month, the load effect does
\* not resolve the displayed month from the default template.
C23_TemplateOnlyOnFirstUse ==
  (LoadPass /\ \E key \in DOMAIN localStorage : IsRecord(localStorage, key))
    => LoadBranch(localStorage, year, month) # "default"

\* C24: the progress shown for a habit is its number of true checks divided
\* by the habit's own stored goal, times 100.
C24_ProgressAgainstStoredGoal ==
  initialized =>
    \A k \in 1..Len(habits) :
      LET row == analysisRow(habits[k], daysInMonth)
      IN  habits[k].goal > 0 =>
            row.percentage.num * habits[k].goal
              = checkedCount(habits[k].checks) * 100 * row.percentage.den

\* C25: whenever the record is displayed, the summary's number of done
\* checks is at least 0 and at most the number of possible checks of the
\* displayed month.
C25_SummaryWithinPossible ==
  initialized =>
    /\ 0 <= totalActualChecks(habits)
    /\ totalActualChecks(habits) <= totalPossibleChecks(habits, daysInMonth)

\* C26: when a month is left by handleMonthChange and displayed again with
\* no change of habits or mentalState in between, it is displayed with the
\* habits and mentalState it had when it was left, and its stored record
\* holds them too.
C26_RoundTrip ==
  (pc = "idle" /\ leftRecord # <<>> /\ leftRecord[1].date = currentDate) =>
    /\ habits = leftRecord[1].habits
    /\ mentalState = leftRecord[1].mentalState
    /\ IsRecord(localStorage, CurKey)
    /\ localStorage[CurKey].habits = leftRecord[1].habits
    /\ localStorage[CurKey].mentalState = leftRecord[1].mentalState

\* a month with a checked day was left and is displayed again
C26_Witness ==
  /\ pc = "idle"
  /\ leftRecord # <<>>
  /\ leftRecord[1].date = currentDate
  /\ \E k \in 1..Len(habits) : checkedCount(habits[k].checks) > 0
  /\ habits = leftRecord[1].habits
  /\ Cardinality(DOMAIN localStorage) >= 2

\* C27: in every reachable state editingHabitId, when set, is the id of a
\* habit of the record in memory, and habitToDelete, when set, is a habit
\* whose id is in the record.
C27_EditAndDeleteTargetsExist ==
  /\ editingHabitId # Null => editingHabitId \in Ids(habits)
  /\ habitToDelete # <<>> => habitToDelete[1].id \in Ids(habits)

\* a habit was added, is in edit mode, and its deletion was requested
C27_Witness ==
  /\ pc = "idle"
  /\ Len(habits) = Len(DEFAULT_HABITS_TEMPLATE) + 1
  /\ editingHabitId = habits[Len(habits)].id
  /\ editingHabitId = ToString(now)
  /\ habitToDelete = <<habits[Len(habits)]>>

====
